---- MODULE Spec2Model ----
(***************************************************************************)
(* State-lattice planner core of nav2_smac_planner (node_lattice.cpp):     *)
(* the shared LatticeMotionTable, the NodeLattice vertices and the         *)
(* distance-heuristic lookup table.                                        *)
(*                                                                         *)
(* Angles are counted in quarter turns (0 = 0 rad, 1 = pi/2, ...), so that *)
(* cos and sin are exact.  Lengths are integers; the control sets used     *)
(* here keep every primitive's final offset a multiple of the grid         *)
(* resolution (node_lattice.cpp:392-393: "the poses are exact bin          *)
(* increments").                                                           *)
(***************************************************************************)
EXTENDS Integers, Sequences, FiniteSets, TLC

VARIABLES
  motion_table,                 \* NodeLattice::motion_table (static)
  size_lookup,                  \* NodeLattice::size_lookup (static)
  dist_heuristic_lookup_table,  \* NodeLattice::dist_heuristic_lookup_table
  heap_overflow,                \* a write past the end of the lookup table happened
  files,                        \* the control-set paths that can be opened
  graph,                        \* the driver's vertex pool, by flat index
  loads,                        \* how many times a control set was loaded
  expansions,                   \* how many times a vertex was expanded
  last                          \* the last call made and what it returned

vars == <<motion_table, size_lookup, dist_heuristic_lookup_table,
          heap_overflow, files, graph, loads, expansions, last>>

----------------------------------------------------------------------------
(* Bounds *)

\* successful loads of a control set in one run
MaxLoads == 2
\* expansions of a vertex in one run
MaxExpansions == 2
\* largest map width handed to initMotionModel
MaxSizeX == 3
\* number of vertices the driver's pool holds (flat indices 0..PoolSize-1)
PoolSize == 6
\* largest lookup window handed to precomputeDistanceHeuristic
MaxWindow == 5
\* largest coordinate of a pose handed to getDistanceHeuristic
MaxCoord == 2

----------------------------------------------------------------------------
(* Values *)

NoPath == ""
NoStateSpace == [model |-> "none", radius |-> 0]
NoMetadata ==
  [number_of_headings |-> 0, heading_angles |-> <<>>,
   grid_resolution |-> 0, min_turning_radius |-> 0]

\* float values, kept symbolic: std::numeric_limits<float>::max(),
\* quiet_NaN(), infinity() and a finite cost
FloatMax == "FLT_MAX"
NaN == "NaN"
PlusInfinity == "+inf"
SomeCost == "1.0"
NullNode == -1

Paths == {"A", "B", "M"}

\* cos and sin of an angle given in quarter turns
Cos(q) == <<1, 0, -1, 0>>[(q % 4) + 1]
Sin(q) == <<0, 1, 0, -1>>[(q % 4) + 1]

Prim(id, sa, ea, x, y) ==
  [primitive_id |-> id, start_angle |-> sa, end_angle |-> ea,
   poses |-> <<[_x |-> x, _y |-> y]>>]

\* The control-set files: latticeMetadata and the primitives array, the
\* primitives grouped contiguously by start angle.
ControlSet(path) ==
  CASE path = "A" ->
         [latticeMetadata |->
            [number_of_headings |-> 4, heading_angles |-> <<0, 1, 2, 3>>,
             grid_resolution |-> 1, min_turning_radius |-> 1],
          primitives |->
            << Prim(0, 0, 0, 1, 0), Prim(1, 0, 1, 1, 1),
               Prim(2, 1, 1, 0, 1),
               Prim(3, 2, 2, -1, 0),
               Prim(4, 3, 3, 0, -1) >>]
    [] path = "B" ->
         [latticeMetadata |->
            [number_of_headings |-> 1, heading_angles |-> <<0>>,
             grid_resolution |-> 2, min_turning_radius |-> 2],
          primitives |-> << Prim(0, 0, 0, 2, 0) >>]
    [] OTHER ->
         [latticeMetadata |->
            [number_of_headings |-> 2, heading_angles |-> <<1, 3>>,
             grid_resolution |-> 1, min_turning_radius |-> 1],
          primitives |-> << Prim(0, 1, 0, 0, 1), Prim(1, 3, 1, 0, -1) >>]

\* SearchInfo values handed in by the planner
SearchInfos ==
  [lattice_filepath : Paths,
   change_penalty : {1, 2},
   non_straight_penalty : {1},
   cost_penalty : {1},
   reverse_penalty : {2},
   allow_reverse_expansion : BOOLEAN,
   minimum_turning_radius : {1}]

----------------------------------------------------------------------------
(* LatticeMotionTable *)

\* node_lattice.cpp:154-166
getLatticeMetadata(lattice_filepath) == ControlSet(lattice_filepath).latticeMetadata

\* node_lattice.cpp:54: the table already holds this control set
AlreadyLoaded(t, search_info) ==
  t.current_lattice_filepath = search_info.lattice_filepath

\* node_lattice.cpp:58-64: the configuration copied before the file is read
CopySearchInfo(t, size_x_in, search_info) ==
  [t EXCEPT !.size_x = size_x_in,
            !.change_penalty = search_info.change_penalty,
            !.non_straight_penalty = search_info.non_straight_penalty,
            !.cost_penalty = search_info.cost_penalty,
            !.reverse_penalty = search_info.reverse_penalty,
            !.current_lattice_filepath = search_info.lattice_filepath,
            !.allow_reverse_expansion = search_info.allow_reverse_expansion]

\* node_lattice.cpp:76-84: the state space is built only when there is none
LazyStateSpace(state_space, allow_reverse_expansion, min_turning_radius) ==
  IF state_space = NoStateSpace
    THEN IF ~allow_reverse_expansion
           THEN [model |-> "Dubins", radius |-> min_turning_radius]
           ELSE [model |-> "ReedsShepp", radius |-> min_turning_radius]
    ELSE state_space

\* node_lattice.cpp:87-101: the scan that groups the primitives into buckets.
\* i is the loop index, prev is prev_start_angle, primitives the bucket being
\* filled, out the vector motion_primitives.
RECURSIVE GroupLoop(_, _, _, _, _)
GroupLoop(json_primitives, i, prev, primitives, out) ==
  IF i > Len(json_primitives)
    THEN Append(out, primitives)
    ELSE LET new_primitive == json_primitives[i] IN
         IF prev # new_primitive.start_angle
           THEN GroupLoop(json_primitives, i + 1, new_primitive.start_angle,
                          <<new_primitive>>, Append(out, primitives))
           ELSE GroupLoop(json_primitives, i + 1, prev,
                          Append(primitives, new_primitive), out)

\* node_lattice.cpp:87-101: prev_start_angle starts at 0.0, the buckets are
\* pushed onto the vector the table already holds
PopulatePrimitives(motion_primitives, json_primitives) ==
  GroupLoop(json_primitives, 1, 0, <<>>, motion_primitives)

\* node_lattice.cpp:104-109: one (cos, sin) pair per heading angle, emplaced at
\* the back of the vector the table already holds
PopulateTrig(trig_values, heading_angles) ==
  trig_values \o [i \in 1..Len(heading_angles) |->
                    <<Cos(heading_angles[i]), Sin(heading_angles[i])>>]

\* the early return placed after the configuration is copied
SamePathReturnAfterCopy(t, size_x_in, search_info) ==
  CopySearchInfo(t, size_x_in, search_info)

\* node_lattice.cpp:52-56: what the early return leaves behind
SamePathReturn(t, size_x_in, search_info) == [t EXCEPT !.size_x = size_x_in]

\* node_lattice.cpp:48-110.  The result is the table after the call and how
\* the call ended: "same" (early return), "throw" or "loaded".
initMotionModel(t, size_x_in, search_info, openable) ==
  IF AlreadyLoaded(t, search_info)
    THEN [table |-> SamePathReturn(t, size_x_in, search_info), outcome |-> "same"]
    ELSE
      LET t1 == CopySearchInfo(t, size_x_in, search_info) IN
      IF t1.current_lattice_filepath \notin openable
        THEN [table |-> t1, outcome |-> "throw"]
        ELSE
          LET md == getLatticeMetadata(t1.current_lattice_filepath)
              json == ControlSet(t1.current_lattice_filepath)
          IN [table |->
                [t1 EXCEPT
                   !.lattice_metadata = md,
                   !.num_angle_quantization = md.number_of_headings,
                   !.state_space =
                      LazyStateSpace(t1.state_space, t1.allow_reverse_expansion,
                                     md.min_turning_radius),
                   !.motion_primitives =
                      PopulatePrimitives(t1.motion_primitives, json.primitives),
                   !.trig_values =
                      PopulateTrig(t1.trig_values, md.heading_angles)],
              outcome |-> "loaded"]

\* node_lattice.cpp:124-128 and 143-147: the end poses of a bucket's
\* primitives, moved to the node's position, in cells
ProjectPrimitives(prims_at_heading, pose, grid_resolution) ==
  [i \in 1..Len(prims_at_heading) |->
     LET end_pose == prims_at_heading[i].poses[Len(prims_at_heading[i].poses)] IN
     << pose[1] + (end_pose._x \div grid_resolution),
        pose[2] + (end_pose._y \div grid_resolution),
        prims_at_heading[i].end_angle >>]

\* node_lattice.cpp:133-139: the heading bin of the reverse expansion
ReverseHeading(theta, num_angle_quantization) ==
  LET h0 == theta - (num_angle_quantization \div 2)
      h1 == IF h0 < 0 THEN h0 + num_angle_quantization ELSE h0
  IN IF h1 > num_angle_quantization THEN h1 - num_angle_quantization ELSE h1

\* node_lattice.cpp:118 and 140: prims_at_heading is a reference to the bucket
\* motion_primitives[node->pose.theta]; the assignment at line 140 assigns
\* through it, so the bucket itself receives the reverse bucket's primitives
AssignThroughReference(motion_primitives, theta, reserve_heading) ==
  [motion_primitives EXCEPT ![theta + 1] = motion_primitives[reserve_heading + 1]]

\* the bucket indices getMotionPrimitives reads exist
BucketsExist(t, pose) ==
  /\ pose[3] + 1 \in DOMAIN t.motion_primitives
  /\ t.lattice_metadata.grid_resolution > 0
  /\ t.allow_reverse_expansion =>
       ReverseHeading(pose[3], t.num_angle_quantization) + 1
         \in DOMAIN t.motion_primitives

\* node_lattice.cpp:112-152.  The result is the projection list and the
\* table after the call.
getMotionPrimitives(t, pose) ==
  LET res == t.lattice_metadata.grid_resolution
      forward == ProjectPrimitives(t.motion_primitives[pose[3] + 1], pose, res)
  IN IF t.allow_reverse_expansion
       THEN
         LET reserve_heading == ReverseHeading(pose[3], t.num_angle_quantization)
             mp == AssignThroughReference(t.motion_primitives, pose[3],
                                          reserve_heading)
         IN [poses |-> forward \o ProjectPrimitives(mp[pose[3] + 1], pose, res),
             table |-> [t EXCEPT !.motion_primitives = mp]]
       ELSE [poses |-> forward, table |-> t]

\* node_lattice.cpp:183-186
getAngleFromBin(t, bin_idx) == t.lattice_metadata.heading_angles[bin_idx + 1]

----------------------------------------------------------------------------
(* Curvature-distance oracle and the distance-heuristic lookup table *)

\* state_space->distance(from, to): the oracle's answer, kept symbolic
Distance(state_space, from, to) == <<state_space.model, state_space.radius, from, to>>

\* what reading past the end of the lookup table may yield
Indeterminate == {"indeterminate_a", "indeterminate_b"}

\* floor(size_lookup / 2.0) and ceil(size_lookup / 2.0)
FlooredSize(size) == size \div 2
CeilingSize(size) == (size + 1) \div 2

\* node_lattice.cpp:337-343: precomputeDistanceHeuristic always builds the
\* state space anew, from the search info
NewStateSpace(search_info) ==
  IF ~search_info.allow_reverse_expansion
    THEN [model |-> "Dubins", radius |-> search_info.minimum_turning_radius]
    ELSE [model |-> "ReedsShepp", radius |-> search_info.minimum_turning_radius]

\* node_lattice.cpp:359: the number of slots the table is resized to
AllocatedSlots(size, dim_3_size) == size * CeilingSize(size) * dim_3_size

\* node_lattice.cpp:360: the first x of the outer loop, ceil(-size_lookup / 2.0)
FirstX(size) == -(size \div 2)

\* node_lattice.cpp:362-369: the inner loop, one stored distance per heading
RECURSIVE HeadingLoop(_, _, _, _, _, _)
HeadingLoop(t, space, x, y, heading, dim_3_size) ==
  IF heading = dim_3_size THEN <<>>
  ELSE <<Distance(space, <<x, y, getAngleFromBin(t, heading)>>, <<0, 0, 0>>)>>
       \o HeadingLoop(t, space, x, y, heading + 1, dim_3_size)

\* node_lattice.cpp:361: y runs from 0 while y <= floor(size_lookup / 2.0)
RECURSIVE YLoop(_, _, _, _, _, _)
YLoop(t, space, size, x, y, dim_3_size) ==
  IF ~(y <= FlooredSize(size)) THEN <<>>
  ELSE HeadingLoop(t, space, x, y, 0, dim_3_size)
       \o YLoop(t, space, size, x, y + 1, dim_3_size)

\* node_lattice.cpp:360: x runs while x <= floor(size_lookup / 2.0)
RECURSIVE XLoop(_, _, _, _, _)
XLoop(t, space, size, x, dim_3_size) ==
  IF ~(x <= FlooredSize(size)) THEN <<>>
  ELSE YLoop(t, space, size, x, 0, dim_3_size)
       \o XLoop(t, space, size, x + 1, dim_3_size)

\* node_lattice.cpp:359-371: the values written at index 0, 1, 2, ... in turn
PrecomputedValues(t, space, size, dim_3_size) ==
  XLoop(t, space, size, FirstX(size), dim_3_size)

\* node_lattice.cpp:359 and 367: the vector after resize() and the writes that
\* fall inside it; resize keeps the old elements and zero-fills new ones
StoreValues(old, slots, written) ==
  [i \in 1..slots |->
     IF i <= Len(written) THEN written[i]
     ELSE IF i <= Len(old) THEN old[i] ELSE 0]

\* node_lattice.cpp:275-292: the node's pose in the goal's frame; the rotation
\* uses the trig cache entry at the goal's bin
RelativePose(t, node_coords, goal_coords) ==
  LET trig_vals == t.trig_values[goal_coords[3] + 1]
      cos_th == trig_vals[1]
      sin_th == -trig_vals[2]
      dx == node_coords[1] - goal_coords[1]
      dy == node_coords[2] - goal_coords[2]
      d0 == node_coords[3] - goal_coords[3]
      d1 == IF d0 < 0 THEN d0 + t.num_angle_quantization ELSE d0
      dtheta_bin == IF d1 > t.num_angle_quantization
                      THEN d1 - t.num_angle_quantization ELSE d1
  IN << dx * cos_th - dy * sin_th, dx * sin_th + dy * cos_th, dtheta_bin >>

Abs(v) == IF v < 0 THEN -v ELSE v

\* the window test with <= in place of <
InLookupWindowInclusive(rel, size) ==
  Abs(rel[1]) <= FlooredSize(size) /\ Abs(rel[2]) <= FlooredSize(size)

\* node_lattice.cpp:301: the relative pose is inside the lookup window
InLookupWindow(rel, size) ==
  Abs(rel[1]) < FlooredSize(size) /\ Abs(rel[2]) < FlooredSize(size)

\* node_lattice.cpp:303-308: the heading used in the flat index
ThetaPos(rel, num_angle_quantization) ==
  IF rel[2] < 0 THEN num_angle_quantization - rel[3] ELSE rel[3]

\* node_lattice.cpp:309-314: the flat index read
LookupIndex(rel, size, num_angle_quantization) ==
  LET x_pos == rel[1] + FlooredSize(size)
      y_pos == Abs(rel[2])
  IN x_pos * CeilingSize(size) * num_angle_quantization
     + y_pos * num_angle_quantization
     + ThetaPos(rel, num_angle_quantization)

\* node_lattice.cpp:316: the far-field test on the obstacle heuristic
ObstacleFree(obstacle_heuristic) == obstacle_heuristic = 0

\* node_lattice.cpp:263-328.  The branch taken and the values the return
\* value may have (more than one only when the read is out of the table).
getDistanceHeuristic(t, table, size, node_coords, goal_coords, obstacle_heuristic) ==
  LET rel == RelativePose(t, node_coords, goal_coords) IN
  IF InLookupWindow(rel, size)
    THEN LET index == LookupIndex(rel, size, t.num_angle_quantization) IN
         [branch |-> "lookup", index |-> index,
          values |-> IF index + 1 \in DOMAIN table
                       THEN {table[index + 1]} ELSE Indeterminate]
    ELSE IF ObstacleFree(obstacle_heuristic)
      THEN [branch |-> "oracle", index |-> -1,
            values |->
              {Distance(t.state_space,
                        <<node_coords[1], node_coords[2],
                          getAngleFromBin(t, node_coords[3])>>,
                        <<goal_coords[1], goal_coords[2],
                          getAngleFromBin(t, goal_coords[3])>>)}]
      ELSE [branch |-> "zero", index |-> -1, values |-> {0}]

----------------------------------------------------------------------------
(* NodeLattice *)

\* node_lattice.cpp:188-196.  The constructor does not set
\* _motion_primitive_index: the field holds whatever was there.
NodeLatticeCtor(index, leftover) ==
  [parent |-> NullNode,
   pose |-> <<0, 0, 0>>,
   _cell_cost |-> NaN,
   _accumulated_cost |-> FloatMax,
   _index |-> index,
   _was_visited |-> FALSE,
   _motion_primitive_index |-> leftover]

\* a reset that forgets to clear the predecessor link
resetKeepsParent(node) ==
  [node EXCEPT !._cell_cost = NaN,
               !._accumulated_cost = FloatMax,
               !._was_visited = FALSE,
               !.pose = <<0, 0, 0>>]

\* node_lattice.cpp:203-212
reset(node) ==
  [node EXCEPT !.parent = NullNode,
               !._cell_cost = NaN,
               !._accumulated_cost = FloatMax,
               !._was_visited = FALSE,
               !.pose = <<0, 0, 0>>]

\* a validity check that accepts every pose
isNodeValidAlways(node, in_collision, cost) ==
  [valid |-> TRUE, node |-> [node EXCEPT !._cell_cost = cost]]

\* node_lattice.cpp:214-228: in_collision is the set of poses the collision
\* checker reports in collision, cost what getCost() returns afterwards
isNodeValid(node, in_collision, cost) ==
  IF node.pose \in in_collision
    THEN [valid |-> FALSE, node |-> node]
    ELSE [valid |-> TRUE, node |-> [node EXCEPT !._cell_cost = cost]]

\* NodeLattice::getIndex: the flat index of a cell and heading bin.  The
\* arithmetic is unsigned int, modulo 2^32; a value is written here by its
\* representative of least magnitude, so a negative number n stands for
\* 2^32 + n, and no sum or product of the model leaves that range.
getIndex(x, y, angle, width, angle_quantization) ==
  angle + x * angle_quantization + y * width * angle_quantization

\* what static_cast<unsigned int> makes of a negative float, which the
\* language leaves undefined: 0 where the conversion saturates, 2^32 - 1
\* (written -1) where it truncates a wider signed result
NegativeCasts == {0, -1}

\* node_lattice.cpp:387-389: static_cast<unsigned int> of a coordinate
CastToUnsigned(coordinate, negative_cast) ==
  IF coordinate < 0 THEN negative_cast ELSE coordinate

\* node_lattice.cpp:386-389: the flat index of a candidate
CandidateIndex(t, candidate, negative_cast) ==
  getIndex(CastToUnsigned(candidate[1], negative_cast),
           CastToUnsigned(candidate[2], negative_cast),
           CastToUnsigned(candidate[3], negative_cast),
           t.size_x, t.num_angle_quantization)

\* the driver's vertex accessor: found when the index is one of the pool's
NeighborGetter(index) == index \in 0..(PoolSize - 1)

\* node_lattice.cpp:385-407: the loop over the candidates, from candidate i
\* on; g is the pool, neighbors the vector filled so far
RECURSIVE NeighborLoop(_, _, _, _, _, _, _, _)
NeighborLoop(t, candidates, i, g, neighbors, in_collision, cost, negative_cast) ==
  IF i > Len(candidates) THEN [graph |-> g, neighbors |-> neighbors]
  ELSE
    LET index == CandidateIndex(t, candidates[i], negative_cast) IN
    IF NeighborGetter(index) /\ ~g[index]._was_visited
      THEN
        LET posed == [g[index] EXCEPT !.pose = candidates[i]]
            r == isNodeValid(posed, in_collision, cost)
        IN IF r.valid
             THEN NeighborLoop(t, candidates, i + 1,
                    [g EXCEPT ![index] =
                       [r.node EXCEPT !._motion_primitive_index = i - 1]],
                    Append(neighbors, index), in_collision, cost, negative_cast)
             ELSE NeighborLoop(t, candidates, i + 1,
                    [g EXCEPT ![index] = r.node],
                    neighbors, in_collision, cost, negative_cast)
      ELSE NeighborLoop(t, candidates, i + 1, g, neighbors,
                        in_collision, cost, negative_cast)

\* node_lattice.cpp:374-408.  The result is the pool, the table and the
\* neighbors vector after the call, and the candidates it went through.
getNeighbors(t, g, v, in_collision, cost, negative_cast) ==
  LET mp == getMotionPrimitives(t, g[v].pose)
      r == NeighborLoop(mp.table, mp.poses, 1, g, <<>>, in_collision, cost,
                        negative_cast)
  IN [graph |-> r.graph, neighbors |-> r.neighbors, table |-> mp.table,
      candidates |-> mp.poses]

----------------------------------------------------------------------------
(* Initial state *)

InitTable ==
  [size_x |-> 0, change_penalty |-> 0, non_straight_penalty |-> 0,
   cost_penalty |-> 0, reverse_penalty |-> 0,
   current_lattice_filepath |-> NoPath,
   allow_reverse_expansion |-> FALSE,
   lattice_metadata |-> NoMetadata,
   num_angle_quantization |-> 0,
   state_space |-> NoStateSpace,
   motion_primitives |-> <<>>,
   trig_values |-> <<>>]

\* values the memory of a vertex may hold where the primitive index goes
Leftovers == {0, 9}

\* node_lattice.cpp:38-40 and the constructor: the statics and the pool of
\* vertices as constructed, the primitive index of every vertex holding one of
\* the given leftovers
InitWith(leftovers) ==
  /\ motion_table = InitTable
  /\ size_lookup = 25
  /\ dist_heuristic_lookup_table = <<>>
  /\ heap_overflow = FALSE
  /\ files = {"A", "B"}
  /\ \E leftover \in leftovers :
       graph = [i \in 0..(PoolSize - 1) |-> NodeLatticeCtor(i, leftover)]
  /\ loads = 0
  /\ expansions = 0
  /\ last = [op |-> "none"]

\* the table and the lookup do not read the primitive index of a vertex
Init == InitWith({0})

\* the search reads and writes it
InitNode == InitWith(Leftovers)

----------------------------------------------------------------------------
(* Actions *)

\* the planner configures the table
InitMotionModel ==
  \E size_x_in \in 2..MaxSizeX, search_info \in SearchInfos :
    LET r == initMotionModel(motion_table, size_x_in, search_info, files) IN
    /\ r.outcome = "loaded" => loads < MaxLoads
    /\ motion_table' = r.table
    /\ loads' = IF r.outcome = "loaded" THEN loads + 1 ELSE loads
    /\ last' = [op |-> "initMotionModel", size_x_in |-> size_x_in,
                search_info |-> search_info, outcome |-> r.outcome]
    /\ UNCHANGED <<size_lookup, dist_heuristic_lookup_table, heap_overflow,
                   files, graph, expansions>>

\* the environment: a control-set file that was missing is put in place
CreateFile ==
  /\ "M" \notin files
  /\ files' = files \cup {"M"}
  /\ last' = [op |-> "createFile"]
  /\ UNCHANGED <<motion_table, size_lookup, dist_heuristic_lookup_table,
                 heap_overflow, graph, loads, expansions>>

\* the table is asked for the candidates of a vertex
GetMotionPrimitives ==
  \E xy \in {<<0, 0>>, <<1, 1>>}, theta \in 0..3 :
    LET pose == <<xy[1], xy[2], theta>> IN
    /\ BucketsExist(motion_table, pose)
    /\ LET r == getMotionPrimitives(motion_table, pose) IN
       /\ motion_table' = r.table
       /\ last' = [op |-> "getMotionPrimitives", pose |-> pose, poses |-> r.poses]
    /\ UNCHANGED <<size_lookup, dist_heuristic_lookup_table, heap_overflow,
                   files, graph, loads, expansions>>

\* search settings handed to precomputeDistanceHeuristic
PrecomputeInfos ==
  [lattice_filepath : {"A"},
   change_penalty : {1},
   non_straight_penalty : {1},
   cost_penalty : {1},
   reverse_penalty : {2},
   allow_reverse_expansion : BOOLEAN,
   minimum_turning_radius : {1}]

\* the planner builds the lookup table, for the heading count of the table
PrecomputeDistanceHeuristic ==
  \E lookup_table_dim \in 1..MaxWindow, search_info \in PrecomputeInfos :
    LET dim_3_size == motion_table.num_angle_quantization
        space == NewStateSpace(search_info)
        t == [motion_table EXCEPT !.state_space = space]
        slots == AllocatedSlots(lookup_table_dim, dim_3_size)
    IN
    /\ dim_3_size >= 1
    /\ dim_3_size <= Len(motion_table.lattice_metadata.heading_angles)
    /\ LET written == PrecomputedValues(t, space, lookup_table_dim, dim_3_size) IN
       /\ motion_table' = t
       /\ size_lookup' = lookup_table_dim
       /\ dist_heuristic_lookup_table' =
            StoreValues(dist_heuristic_lookup_table, slots, written)
       /\ heap_overflow' = (heap_overflow \/ Len(written) > slots)
       /\ last' = [op |-> "precomputeDistanceHeuristic",
                   lookup_table_dim |-> lookup_table_dim,
                   dim_3_size |-> dim_3_size,
                   search_info |-> search_info,
                   written |-> Len(written), slots |-> slots]
    /\ UNCHANGED <<files, graph, loads, expansions>>

\* the driver asks for the distance heuristic of a vertex
GetDistanceHeuristic ==
  \E nx \in 0..MaxCoord, ny \in 0..MaxCoord, nth \in 0..3, gth \in 0..1,
     obstacle_heuristic \in {0, 1} :
    LET node_coords == <<nx, ny, nth>>
        goal_coords == <<1, 1, gth>>
    IN
    /\ nth < motion_table.num_angle_quantization
    /\ gth < motion_table.num_angle_quantization
    /\ nth + 1 \in DOMAIN motion_table.lattice_metadata.heading_angles
    /\ gth + 1 \in DOMAIN motion_table.lattice_metadata.heading_angles
    /\ gth + 1 \in DOMAIN motion_table.trig_values
    /\ dist_heuristic_lookup_table # <<>>
    /\ LET r == getDistanceHeuristic(motion_table, dist_heuristic_lookup_table,
                                     size_lookup, node_coords, goal_coords,
                                     obstacle_heuristic)
       IN \E v \in r.values :
            last' = [op |-> "getDistanceHeuristic", node_coords |-> node_coords,
                     goal_coords |-> goal_coords,
                     obstacle_heuristic |-> obstacle_heuristic,
                     branch |-> r.branch, index |-> r.index, value |-> v]
    /\ UNCHANGED <<motion_table, size_lookup, dist_heuristic_lookup_table,
                   heap_overflow, files, graph, loads, expansions>>

\* the planner loads one of two control sets, everything else fixed, at most
\* most times in a run
LoadUpTo(most) ==
  \E path \in {"A", "B"}, reverse \in BOOLEAN :
    LET search_info ==
          [lattice_filepath |-> path, change_penalty |-> 1,
           non_straight_penalty |-> 1, cost_penalty |-> 1, reverse_penalty |-> 2,
           allow_reverse_expansion |-> reverse, minimum_turning_radius |-> 1]
        r == initMotionModel(motion_table, MaxSizeX, search_info, files)
    IN
    /\ r.outcome = "loaded" => loads < most
    /\ motion_table' = r.table
    /\ loads' = IF r.outcome = "loaded" THEN loads + 1 ELSE loads
    /\ last' = [op |-> "initMotionModel", size_x_in |-> MaxSizeX,
                search_info |-> search_info, outcome |-> r.outcome]
    /\ UNCHANGED <<size_lookup, dist_heuristic_lookup_table, heap_overflow,
                   files, graph, expansions>>

Next == InitMotionModel \/ CreateFile \/ GetMotionPrimitives

Spec == Init /\ [][Next]_vars

\* the driver gives the start vertex its cost
Start ==
  /\ graph[0]._accumulated_cost = FloatMax
  /\ graph' = [graph EXCEPT ![0]._accumulated_cost = SomeCost]
  /\ last' = [op |-> "start", v |-> 0]
  /\ UNCHANGED <<motion_table, size_lookup, dist_heuristic_lookup_table,
                 heap_overflow, files, loads, expansions>>

\* the driver reaches a neighbor it was just handed: it stores the cost and
\* links the neighbor to the expanded vertex
Reach ==
  /\ last.op = "getNeighbors"
  /\ \E k \in DOMAIN last.neighbors :
       LET v == last.neighbors[k] IN
       /\ graph[v]._accumulated_cost = FloatMax
       /\ graph' = [graph EXCEPT ![v].parent = last.v,
                                 ![v]._accumulated_cost = SomeCost]
       /\ last' = [last EXCEPT !.reached = @ \cup {v}]
  /\ UNCHANGED <<motion_table, size_lookup, dist_heuristic_lookup_table,
                 heap_overflow, files, loads, expansions>>

\* the driver takes a reached vertex off its queue and marks it visited
Visit ==
  \E v \in DOMAIN graph :
    /\ graph[v]._accumulated_cost # FloatMax
    /\ ~graph[v]._was_visited
    /\ graph' = [graph EXCEPT ![v]._was_visited = TRUE]
    /\ last' = [op |-> "visited", v |-> v]
    /\ UNCHANGED <<motion_table, size_lookup, dist_heuristic_lookup_table,
                   heap_overflow, files, loads, expansions>>

\* the driver resets a vertex of the pool
Reset ==
  \E v \in DOMAIN graph :
    /\ graph' = [graph EXCEPT ![v] = reset(graph[v])]
    /\ last' = [op |-> "reset", v |-> v, before |-> graph[v]]
    /\ UNCHANGED <<motion_table, size_lookup, dist_heuristic_lookup_table,
                   heap_overflow, files, loads, expansions>>

\* the driver expands a vertex
GetNeighbors ==
  \E v \in DOMAIN graph :
    /\ last.op = "visited" /\ last.v = v
    /\ BucketsExist(motion_table, graph[v].pose)
    /\ LET candidates == getMotionPrimitives(motion_table, graph[v].pose).poses
           negative == \E i \in DOMAIN candidates :
                         candidates[i][1] < 0 \/ candidates[i][2] < 0
       IN \E in_collision \in SUBSET {candidates[i] : i \in DOMAIN candidates},
             negative_cast \in (IF negative THEN NegativeCasts ELSE {0}) :
            LET r == getNeighbors(motion_table, graph, v, in_collision, SomeCost,
                                  negative_cast)
            IN /\ graph' = r.graph
               /\ motion_table' = r.table
               /\ last' = [op |-> "getNeighbors", v |-> v,
                           candidates |-> r.candidates,
                           indices |-> [i \in DOMAIN r.candidates |->
                                          CandidateIndex(r.table, r.candidates[i],
                                                         negative_cast)],
                           in_collision |-> in_collision,
                           neighbors |-> r.neighbors,
                           reached |-> {}]
    /\ expansions < MaxExpansions
    /\ expansions' = expansions + 1
    /\ UNCHANGED <<size_lookup, dist_heuristic_lookup_table, heap_overflow,
                   files, loads>>

\* the planner configures the table once, before the search
Configure == LoadUpTo(1)

NextNode ==
  Configure \/ Start \/ Visit \/ GetNeighbors \/ Reach \/ Reset

SpecNode == InitNode /\ [][NextNode]_vars

NextHeuristic ==
  Configure \/ PrecomputeDistanceHeuristic \/ GetDistanceHeuristic

SpecHeuristic == Init /\ [][NextHeuristic]_vars

\* the planner may load another control set between two builds of the lookup
\* table
Reload == LoadUpTo(MaxLoads)

NextOracle == Reload \/ PrecomputeDistanceHeuristic

SpecOracle == Init /\ [][NextOracle]_vars

----------------------------------------------------------------------------
(* What the control-set files say, read off the files themselves *)

\* the file the table's metadata was read from (some load succeeded)
LoadedFile ==
  CHOOSE p \in Paths : ControlSet(p).latticeMetadata = motion_table.lattice_metadata

\* the primitives a file gives for heading bin h, in file order
BinPrimitives(path, h) ==
  LET cs == ControlSet(path) IN
  SelectSeq(cs.primitives,
            LAMBDA p : p.start_angle = cs.latticeMetadata.heading_angles[h + 1])

\* the bin diametrically opposite h, of num bins
OppositeBin(h, num) == (h + num - (num \div 2)) % num

\* the table holds one load of a file whose first bin is at angle 0, and no
\* failed load came after it
CleanLoad ==
  /\ loads = 1
  /\ motion_table.current_lattice_filepath = LoadedFile
  /\ motion_table.lattice_metadata.heading_angles[1] = 0

----------------------------------------------------------------------------
(* Claims *)

\* C1 (as stated): an initMotionModel call with the path the table already
\* holds changes no field of the table, whatever map width and other search
\* settings it is given.
C1_SamePathIsNoOp ==
  [][(last'.op = "initMotionModel" /\ last'.outcome = "same")
       => motion_table' = motion_table]_vars

\* C1 (amended): an initMotionModel call with the path the table already holds
\* stores the map width it is given in size_x and changes no other field of
\* the table.
C1_SamePathKeepsAllButSizeX ==
  [][(last'.op = "initMotionModel" /\ last'.outcome = "same")
       => motion_table' = [motion_table EXCEPT !.size_x = last'.size_x_in]]_vars

\* C1 witness: a same-path call that came with another map width, another
\* penalty and another reverse flag than the table holds
C1_Witness ==
  /\ last.op = "initMotionModel"
  /\ last.outcome = "same"
  /\ loads > 0
  /\ last.search_info.change_penalty # motion_table.change_penalty
  /\ last.search_info.allow_reverse_expansion # motion_table.allow_reverse_expansion

\* C2: an initMotionModel call whose control-set file cannot be opened leaves
\* the recorded file path, the penalties and the reverse flag as they were.
C2_FailedLoadLeavesTable ==
  [][(last'.op = "initMotionModel" /\ last'.outcome = "throw")
       => /\ motion_table'.current_lattice_filepath
               = motion_table.current_lattice_filepath
          /\ motion_table'.change_penalty = motion_table.change_penalty
          /\ motion_table'.non_straight_penalty = motion_table.non_straight_penalty
          /\ motion_table'.cost_penalty = motion_table.cost_penalty
          /\ motion_table'.reverse_penalty = motion_table.reverse_penalty
          /\ motion_table'.allow_reverse_expansion
               = motion_table.allow_reverse_expansion]_vars

\* C3: getMotionPrimitives for a vertex at heading bin h returns the end poses
\* of the primitives the file gives for bin h, followed, when reverse
\* expansion is on, by those the file gives for the opposite bin.
C3_CandidatesAreLoadedPrimitives ==
  (last.op = "getMotionPrimitives" /\ CleanLoad) =>
    LET h == last.pose[3]
        res == motion_table.lattice_metadata.grid_resolution
        opp == OppositeBin(h, motion_table.num_angle_quantization)
    IN last.poses =
         ProjectPrimitives(BinPrimitives(LoadedFile, h), last.pose, res)
         \o (IF motion_table.allow_reverse_expansion
               THEN ProjectPrimitives(BinPrimitives(LoadedFile, opp), last.pose, res)
               ELSE <<>>)

\* C9: after a successful initMotionModel call the table holds exactly one
\* bucket per heading bin of the file at the configured path, bucket k holding
\* that file's primitives for bin k, and one trig pair per heading bin.
C9_BucketsAreThoseOfTheFile ==
  (last.op = "initMotionModel" /\ last.outcome \in {"loaded", "same"}) =>
    LET path == last.search_info.lattice_filepath
        md == ControlSet(path).latticeMetadata
    IN /\ motion_table.motion_primitives =
            [k \in 1..md.number_of_headings |-> BinPrimitives(path, k - 1)]
       /\ motion_table.trig_values =
            [k \in 1..md.number_of_headings |->
               <<Cos(md.heading_angles[k]), Sin(md.heading_angles[k])>>]

\* C10: a getMotionPrimitives call leaves every primitive bucket of the table
\* as it was.
C10_ExpansionKeepsBuckets ==
  [][last'.op = "getMotionPrimitives"
       => motion_table'.motion_primitives = motion_table.motion_primitives]_vars

TableBuiltForThisLattice ==
  /\ loads = 1
  /\ size_lookup % 2 = 1
  /\ Len(dist_heuristic_lookup_table)
       = size_lookup * ((size_lookup + 1) \div 2) * motion_table.num_angle_quantization

\* C6: a lookup for the relative pose (x, y, heading) uses a heading bin in
\* [0, headingCount), namely heading when y >= 0 and headingCount - heading
\* when y < 0, and reads the entry stored for (x, |y|, that bin).
C6_LookupReadsMirroredEntry ==
  (last.op = "getDistanceHeuristic" /\ last.branch = "lookup"
     /\ TableBuiltForThisLattice) =>
    LET rel == RelativePose(motion_table, last.node_coords, last.goal_coords)
        hc == motion_table.num_angle_quantization
        mirrored == IF rel[2] >= 0 THEN rel[3] ELSE hc - rel[3]
    IN /\ mirrored \in 0..(hc - 1)
       /\ last.index + 1 \in DOMAIN dist_heuristic_lookup_table
       /\ last.value =
            Distance(motion_table.state_space,
                     <<rel[1], Abs(rel[2]), getAngleFromBin(motion_table, mirrored)>>,
                     <<0, 0, 0>>)

\* C8: precomputeDistanceHeuristic allocates exactly one slot per value it
\* stores, for odd and even windows alike, so that no write falls outside the
\* table, and the y-stride used when reading equals the one used when writing.
C8_OneSlotPerStoredValue ==
  last.op = "precomputeDistanceHeuristic" =>
    LET size == last.lookup_table_dim
        hc == last.dim_3_size
    IN /\ last.written = last.slots
       /\ ~heap_overflow
       /\ ((size + 1) \div 2) * hc = ((size \div 2) + 1) * hc

\* C4 (as stated): after reset() the vertex's accumulated cost is +infinity,
\* it is not visited, its pose is (0,0,0) and it has no predecessor.
C4_ResetGivesInfiniteCost ==
  last.op = "reset" =>
    /\ graph[last.v]._accumulated_cost = PlusInfinity
    /\ graph[last.v]._was_visited = FALSE
    /\ graph[last.v].pose = <<0, 0, 0>>
    /\ graph[last.v].parent = NullNode

\* C4 (amended): after reset() the vertex's accumulated cost is the largest
\* finite float, the value the constructor stores for an unreached vertex; it
\* is not visited, its pose is (0,0,0), it has no predecessor, and every field
\* the constructor sets has the value the constructor gives a vertex of that
\* index.
C4_ResetGivesUnreachedState ==
  last.op = "reset" =>
    /\ graph[last.v]._accumulated_cost = FloatMax
    /\ graph[last.v]._was_visited = FALSE
    /\ graph[last.v].pose = <<0, 0, 0>>
    /\ graph[last.v].parent = NullNode
    /\ graph[last.v] =
         NodeLatticeCtor(last.v, last.before._motion_primitive_index)

\* C4 witness: the vertex reset was reached, visited, had a predecessor, a
\* pose and a primitive recorded by an expansion
C4_Witness ==
  /\ last.op = "reset"
  /\ last.before._was_visited
  /\ last.before.parent # NullNode
  /\ last.before._accumulated_cost # FloatMax
  /\ last.before.pose # <<0, 0, 0>>
  /\ last.before._motion_primitive_index \notin Leftovers

\* the positions in the candidate list of the candidates that the accessor
\* found, that were not visited and that are not in collision
PassingCandidates ==
  SelectSeq([i \in DOMAIN last.candidates |-> i],
            LAMBDA i : /\ last.indices[i] \in DOMAIN graph
                       /\ ~graph[last.indices[i]]._was_visited
                       /\ last.candidates[i] \notin last.in_collision)

\* C7: after getNeighbors the appended vertices are, in candidate order, those
\* of the candidates that the accessor found, that were not visited and whose
\* pose is free; each appended vertex has the pose of its candidate, and the
\* primitive it records is a candidate of that pose that was found at this
\* vertex, not visited and free.
C7_NeighborsAreFreeCandidates ==
  (last.op = "getNeighbors") =>
    /\ last.neighbors = [k \in DOMAIN PassingCandidates |->
                           last.indices[PassingCandidates[k]]]
    /\ \A k \in DOMAIN PassingCandidates :
         LET i == PassingCandidates[k]
             v == last.indices[i]
             recorded == graph[v]._motion_primitive_index + 1
         IN /\ graph[v].pose = last.candidates[i]
            /\ \E j \in DOMAIN PassingCandidates : PassingCandidates[j] = recorded
            /\ last.indices[recorded] = v
            /\ last.candidates[recorded] = last.candidates[i]

\* C7 witness: an expansion that appended a vertex, dropped a candidate whose
\* vertex was found and not visited because its pose is in collision, and
\* dropped a candidate the accessor did not find
C7_Witness ==
  /\ last.op = "getNeighbors"
  /\ last.reached = {}
  /\ Len(last.neighbors) >= 1
  /\ \E i \in DOMAIN last.candidates :
       /\ last.indices[i] \in DOMAIN graph
       /\ ~graph[last.indices[i]]._was_visited
       /\ last.candidates[i] \in last.in_collision
  /\ \E i \in DOMAIN last.candidates : last.indices[i] \notin DOMAIN graph

\* C7 witness of the spec's scenario: one heading bin, one forward primitive
\* of one cell, expanded from the origin with the cell in collision
C7_ScenarioCollision ==
  /\ last.op = "getNeighbors"
  /\ motion_table.num_angle_quantization = 1
  /\ graph[last.v].pose = <<0, 0, 0>>
  /\ last.candidates = << <<1, 0, 0>> >>
  /\ last.in_collision = { <<1, 0, 0>> }
  /\ last.neighbors = <<>>
\* C11: whenever the table has an oracle, it is the forward-only model exactly
\* when the table's reverse-expansion flag is false and the reversible model
\* exactly when the flag is true, after any sequence of initMotionModel and
\* precomputeDistanceHeuristic calls.
C11_OracleFollowsReverseFlag ==
  motion_table.state_space # NoStateSpace =>
    /\ ~motion_table.allow_reverse_expansion
         <=> motion_table.state_space.model = "Dubins"
    /\ motion_table.allow_reverse_expansion
         <=> motion_table.state_space.model = "ReedsShepp"
====
